---- MODULE Spec2Model ----
(***************************************************************************)
(* A model of the openbrush code generators:                               *)
(*   - the modifier chain produced by #[modifiers(..)]                     *)
(*     (utils/brush/proc_macros/lib.rs, the documented expansion),         *)
(*   - the `once` guard modifier of the same file,                         *)
(*   - the accessor generator (lang/codegen/src/accessors.rs),             *)
(*   - the build-scoped trait-definition store and the storage keys,       *)
(*     whose generators are outside the sources at hand and are modelled   *)
(*     from the specification.                                             *)
(* Each part has its own specification; the variables of the other parts   *)
(* are held at their idle values.                                          *)
(***************************************************************************)
EXTENDS Integers, Sequences, FiniteSets, TLC

VARIABLES
    \* ---- modifier chain ----
    cfg,        \* the method under call: chain length, modifiers, body, argument
    ctl,        \* "enter" (about to call the next nesting level), "in", "done"
    stack,      \* activations of modifiers, outermost first
    trace,      \* observable events (the println! of the modifiers and the body)
    mem,        \* cell 0: the method's argument; cell d: the clone held at depth d
    received,   \* what each modifier that names the argument was handed
    bodyRuns,   \* how often the original body ran
    \* ---- the `once` guard ----
    initialized,\* Contract::initialized
    count,      \* the counter the guarded method increments
    ostack,     \* calls of the guarded method in progress, outermost first
    olog,       \* every call started so far: depth, flag at its start, accepted
    snapshot,   \* the contract as it was when the running message started
    ntop,       \* messages (top-level calls) started so far
    \* ---- accessor generator ----
    decl,       \* the declaration handed to accessors()
    gen,        \* what accessors() produced: the token stream, or a panic
    obj,        \* the composed object the generated methods run on
    prev,       \* the object before the last generated method was called
    lastOp,     \* the last generated method called, its argument and result
    lastSet,    \* per field: the argument of the most recent set_ call
    \* ---- one build: splitter and composition ----
    build,      \* the build's input: modules declared, modules the object includes
    todo,       \* declaration passes not yet run
    records,    \* build-scoped store: module name -> signature record
    firstRec,   \* each record as it was first written in this build
    outcome,    \* of the composed object: "pending", "expanded" or "failed"
    failure,    \* the diagnostic of a failed build
    \* ---- storage-fragment registrar ----
    hashfn,     \* the registrar's hash, restricted to the names at hand
    frags,      \* the fragments merged into the composed object
    ktodo,      \* fragments the registrar has not yet run on
    keys,       \* storage keys assigned so far: fragment name -> key
    firstKey,   \* the key each fragment name got the first time, in any run
    nruns,      \* how often the generator has been run on these fragments
    \* ---- capped extension: the lazy `cap` field ----
    capCell,    \* Data::cap: {} while never written, {v} once v was written
    capPrev,    \* Data::cap before the last call
    capArgs,    \* the arguments of the _init_cap calls so far, oldest first
    capRes      \* the last call and what it returned

chainVars == <<cfg, ctl, stack, trace, mem, received, bodyRuns>>
onceVars == <<initialized, count, ostack, olog, snapshot, ntop>>

accVars == <<decl, gen, obj, prev, lastOp, lastSet>>

buildVars == <<build, todo, records, firstRec, outcome, failure>>
keyVars == <<hashfn, frags, ktodo, keys, firstKey, nruns>>
capVars == <<capCell, capPrev, capArgs, capRes>>

notChain == <<onceVars, accVars, buildVars, keyVars, capVars>>
notOnce == <<chainVars, accVars, buildVars, keyVars, capVars>>
notAcc == <<chainVars, onceVars, buildVars, keyVars, capVars>>
notBuild == <<chainVars, onceVars, accVars, keyVars, capVars>>
notKeys == <<chainVars, onceVars, accVars, buildVars, capVars>>

notCap == <<chainVars, onceVars, accVars, buildVars, keyVars>>

vars == <<chainVars, onceVars, accVars, buildVars, keyVars, capVars>>

\* ------------------------------------------------------------------ bounds
MaxChain == 3
MaxThunkCalls == 2
MaxArg == 1
MaxDepth == 3
MaxMessages == 2
MaxFields == 2
MaxNames == 3
KeyBits == 1
MaxRuns == 2
MaxCap == 3
MaxCapCalls == 3

\* ------------------------------------------------------------ modifier chain

\* u8 arithmetic of the example's `_data: u8`.
U8(v) == v % 256

Pre(m) == [t |-> "pre", m |-> m]
Post(m) == [t |-> "post", m |-> m]
BodyEv == [t |-> "body", m |-> 0]

\* The method, its modifier list and the modifiers' behaviour (the generator's
\* input): n modifiers, in declared order 1..n; takes[m]: modifier m names the
\* method's argument; calls[m]: how often modifier m invokes its body thunk;
\* bodyMut: the original body assigns to the argument.
Configs ==
    { c \in [n : 1..MaxChain,
             takes : [1..MaxChain -> BOOLEAN],
             calls : [1..MaxChain -> 0..MaxThunkCalls],
             bodyMut : BOOLEAN,
             x0 : 0..MaxArg] :
        \A m \in 1..MaxChain : m > c.n => (~c.takes[m] /\ c.calls[m] = 0) }

\* Right-to-left nesting: the last declared modifier outermost.
NestedModifierReversed(d) == cfg.n + 1 - d

\* The modifier called at nesting depth d (1 = called by the method itself):
\* A(self, __brush_body_2) is outermost, C(.., __brush_body_0) innermost.
NestedModifier(d) == d

\* The argument handed over by reference: the modifier works on the method's own cell.
ArgCellAliased(d) == 0

\* `let __brush_cloned_0 = _data.clone();` the modifier at depth d owns a fresh cell.
ArgCell(d) == d

\* An expansion that runs the inner chain whether or not the thunk is invoked.
ThunkPendingEager(f) == TRUE

\* The inner closure runs only when the modifier calls `body(instance)`.
ThunkPending(f) == f.left > 0

ChainIdle ==
    /\ cfg = [n |-> 0]
    /\ ctl = "idle"
    /\ stack = <<>>
    /\ trace = <<>>
    /\ mem = <<>>
    /\ received = <<>>
    /\ bodyRuns = 0

OnceIdle ==
    /\ initialized = FALSE
    /\ count = 0
    /\ ostack = <<>>
    /\ olog = <<>>
    /\ snapshot = <<>>
    /\ ntop = 0

AccIdle ==
    /\ decl = <<>>
    /\ gen = <<>>
    /\ obj = <<>>
    /\ prev = <<>>
    /\ lastOp = <<>>
    /\ lastSet = <<>>

BuildIdle ==
    /\ build = <<>>
    /\ todo = {}
    /\ records = <<>>
    /\ firstRec = <<>>
    /\ outcome = "idle"
    /\ failure = <<>>

KeysIdle ==
    /\ hashfn = <<>>
    /\ frags = {}
    /\ ktodo = {}
    /\ keys = <<>>
    /\ firstKey = <<>>
    /\ nruns = 0

CapIdle ==
    /\ capCell = {}
    /\ capPrev = {}
    /\ capArgs = <<>>
    /\ capRes = <<>>

ChainStart ==
    /\ cfg \in Configs
    /\ ctl = "enter"
    /\ stack = <<>>
    /\ trace = <<>>
    /\ mem = [a \in 0..MaxChain |-> IF a = 0 THEN cfg.x0 ELSE 0]
    /\ received = <<>>
    /\ bodyRuns = 0

\* The enclosing closure (or the method itself, at depth 1) clones the argument
\* and calls the modifier, which prints its "before" line and, when it was handed
\* the argument, changes its own copy.
EnterModifier ==
    /\ ctl = "enter"
    /\ Len(stack) < cfg.n
    /\ LET d == Len(stack) + 1
           m == NestedModifier(d)
           a == ArgCell(d)
       IN  /\ stack' = Append(stack, [d |-> d, m |-> m, left |-> cfg.calls[m]])
           /\ trace' = Append(trace, Pre(m))
           /\ IF cfg.takes[m]
              THEN /\ received' = Append(received,
                                   [m |-> m, val |-> mem[0], runs |-> bodyRuns])
                   /\ mem' = [mem EXCEPT ![a] = U8(mem[0] + 10)]
              ELSE UNCHANGED <<received, mem>>
    /\ ctl' = "in"
    /\ UNCHANGED <<cfg, bodyRuns>>

\* The innermost closure: the method's original body.
RunBody ==
    /\ ctl = "enter"
    /\ Len(stack) = cfg.n
    /\ trace' = Append(trace, BodyEv)
    /\ bodyRuns' = bodyRuns + 1
    /\ mem' = IF cfg.bodyMut THEN [mem EXCEPT ![0] = U8(mem[0] + 1)] ELSE mem
    /\ ctl' = "in"
    /\ UNCHANGED <<cfg, stack, received>>

\* `let result = body(instance);` in the modifier on top of the stack.
InvokeThunk ==
    /\ ctl = "in"
    /\ stack # <<>>
    /\ LET f == stack[Len(stack)]
       IN  /\ ThunkPending(f)
           /\ stack' = [stack EXCEPT ![Len(stack)].left =
                            IF f.left > 0 THEN f.left - 1 ELSE 0]
    /\ ctl' = "enter"
    /\ UNCHANGED <<cfg, trace, mem, received, bodyRuns>>

\* The modifier prints its "after" line and returns to its caller.
ReturnModifier ==
    /\ ctl = "in"
    /\ stack # <<>>
    /\ LET f == stack[Len(stack)]
       IN  /\ f.left = 0
           /\ trace' = Append(trace, Post(f.m))
           /\ stack' = SubSeq(stack, 1, Len(stack) - 1)
    /\ ctl' = IF Len(stack) = 1 THEN "done" ELSE "in"
    /\ UNCHANGED <<cfg, mem, received, bodyRuns>>

InitChain ==
    /\ ChainStart
    /\ OnceIdle
    /\ AccIdle
    /\ BuildIdle
    /\ KeysIdle
    /\ CapIdle

NextChain ==
    \/ EnterModifier /\ UNCHANGED notChain
    \/ RunBody /\ UNCHANGED notChain
    \/ InvokeThunk /\ UNCHANGED notChain
    \/ ReturnModifier /\ UNCHANGED notChain

SpecChain == InitChain /\ [][NextChain]_vars

\* ---- claims about the modifier chain ----

CountEv(ev) == Cardinality({i \in DOMAIN trace : trace[i] = ev})

ExpectedTrace(n) ==
    [i \in 1..(2 * n + 1) |->
        IF i <= n THEN Pre(i)
        ELSE IF i = n + 1 THEN BodyEv
        ELSE Post(2 * n + 2 - i)]

\* C1: when every modifier of the list invokes its thunk exactly once, a finished
\* call has produced m1.pre, ..., mn.pre, B, mn.post, ..., m1.post: the first
\* declared modifier is outermost and the body innermost.
OrderC1 ==
    (ctl = "done" /\ \A m \in 1..cfg.n : cfg.calls[m] = 1)
        => trace = ExpectedTrace(cfg.n)

WitnessC1 ==
    /\ ctl = "done"
    /\ cfg.n > 1
    /\ \A m \in 1..cfg.n : cfg.calls[m] = 1
    /\ trace[1] = Pre(1)
    /\ trace[Len(trace)] = Post(1)

\* C2: once a modifier mk that never invokes its thunk has returned, neither the
\* body nor any inner modifier has run, and when the call is over every outer
\* modifier has run its post-body logic for each time it was entered.
ShortCircuitC2 ==
    \A k \in 1..cfg.n :
        (cfg.calls[k] = 0 /\ CountEv(Post(k)) > 0) =>
            /\ CountEv(BodyEv) = 0
            /\ \A j \in (k + 1)..cfg.n : CountEv(Pre(j)) = 0 /\ CountEv(Post(j)) = 0
            /\ ctl = "done" =>
                  \A j \in 1..(k - 1) :
                      CountEv(Post(j)) > 0 /\ CountEv(Post(j)) = CountEv(Pre(j))

WitnessC2 ==
    /\ ctl = "done"
    /\ \E k \in 2..cfg.n :
          /\ k < cfg.n
          /\ cfg.calls[k] = 0
          /\ CountEv(Post(k)) > 1
          /\ CountEv(Post(1)) = 1

\* C3 as claimed: every modifier that names the argument receives the value the
\* argument had when the method was called, however often an outer modifier
\* invoked its thunk.
ReceivedCallValueC3 ==
    \A i \in DOMAIN received : received[i].val = cfg.x0

\* C3 as amended: the clone is taken each time the enclosing closure runs, so a
\* modifier receives the argument's value at that moment: the call-time value as
\* long as the body has not assigned the argument, and the body's value after
\* that; no modifier's change of its own copy reaches another modifier or the
\* method's argument.
CloneAtInvocationC3 ==
    /\ \A i \in DOMAIN received :
          received[i].val =
              U8(cfg.x0 + (IF cfg.bodyMut THEN received[i].runs ELSE 0))
    /\ mem[0] = U8(cfg.x0 + (IF cfg.bodyMut THEN bodyRuns ELSE 0))

WitnessC3 ==
    /\ ctl = "done"
    /\ \E i, j \in DOMAIN received :
          /\ received[i].m # received[j].m
          /\ received[i].val = cfg.x0
          /\ received[j].val # cfg.x0
          /\ received[j].runs > 0

\* ------------------------------------------------------------ the once guard

\* A guard whose assertion is missing.
OnceGuardAbsent(flag) == TRUE

\* `assert!(!instance.initialized, "Contract is already initialized");`
OnceGuard(flag) == ~flag

\* The guarded method's body: the counter is incremented.
IncrementBody(c) == c + 1

OnceStart ==
    /\ initialized = FALSE
    /\ count = 0
    /\ ostack = <<>>
    /\ olog = <<>>
    /\ snapshot = [initialized |-> FALSE, count |-> 0]
    /\ ntop = 0

\* Where a call of the guarded method may start: as a new message when nothing is
\* running, or from inside the body of the call on top of the stack.
MayStartCall ==
    \/ ostack = <<>> /\ ntop < MaxMessages
    \/ ostack # <<>> /\ Len(ostack) < MaxDepth

CallRecord(ok) ==
    [depth |-> Len(ostack), flag |-> initialized, accepted |-> ok]

\* once(): the assertion holds and the body closure is entered.
CallAccepted ==
    /\ MayStartCall
    /\ OnceGuard(initialized)
    /\ ostack' = Append(ostack, "body")
    /\ olog' = Append(olog, CallRecord(TRUE))
    /\ IF ostack = <<>>
       THEN /\ ntop' = ntop + 1
            /\ snapshot' = [initialized |-> initialized, count |-> count]
       ELSE UNCHANGED <<ntop, snapshot>>
    /\ UNCHANGED <<initialized, count>>

\* once(): the assertion fails; the panic ends the whole message. Plain Rust
\* leaves the contract as the unwound calls left it, a contract runtime reverts
\* it to what it was when the message started.
CallRejected ==
    /\ MayStartCall
    /\ ~OnceGuard(initialized)
    /\ olog' = Append(olog, CallRecord(FALSE))
    /\ ostack' = <<>>
    /\ ntop' = IF ostack = <<>> THEN ntop + 1 ELSE ntop
    /\ \E revert \in BOOLEAN :
          IF revert /\ ostack # <<>>
          THEN /\ initialized' = snapshot.initialized
               /\ count' = snapshot.count
          ELSE UNCHANGED <<initialized, count>>
    /\ UNCHANGED snapshot

\* The body of the call on top of the stack does its work.
BodyStep ==
    /\ ostack # <<>>
    /\ ostack[Len(ostack)] = "body"
    /\ count' = IncrementBody(count)
    /\ ostack' = [ostack EXCEPT ![Len(ostack)] = "incremented"]
    /\ UNCHANGED <<initialized, olog, snapshot, ntop>>

\* `body(instance)` has returned: `instance.initialized = true;` and once() returns.
CallReturn ==
    /\ ostack # <<>>
    /\ ostack[Len(ostack)] = "incremented"
    /\ initialized' = TRUE
    /\ ostack' = SubSeq(ostack, 1, Len(ostack) - 1)
    /\ UNCHANGED <<count, olog, snapshot, ntop>>

InitOnce ==
    /\ OnceStart
    /\ ChainIdle
    /\ AccIdle
    /\ BuildIdle
    /\ KeysIdle
    /\ CapIdle

NextOnce ==
    \/ CallAccepted /\ UNCHANGED notOnce
    \/ CallRejected /\ UNCHANGED notOnce
    \/ BodyStep /\ UNCHANGED notOnce
    \/ CallReturn /\ UNCHANGED notOnce

SpecOnce == InitOnce /\ [][NextOnce]_vars

\* ---- claims about the once guard ----

AcceptedCalls == Cardinality({i \in DOMAIN olog : olog[i].accepted})

FirstCallAloneC9 ==
    (Len(olog) = 1 /\ ostack = <<>> /\ olog[1].accepted)
        => (count = 1 /\ initialized)

\* C9 as claimed: a first call that is not re-entered leaves count = 1, and a
\* call that starts while an earlier call is still executing is rejected before
\* the body runs.
ReentryRejectedC9 ==
    /\ FirstCallAloneC9
    /\ \A i \in DOMAIN olog : olog[i].depth > 0 => ~olog[i].accepted

\* C9 as amended: a first call that is not re-entered leaves count = 1 and the
\* flag set; a call is rejected before the body runs exactly when it starts with
\* the flag set, that is after some call has returned; the flag is set only when
\* the body returns, so a call that starts inside the body of a running call
\* before any call has returned is accepted and runs the body again.
FlagSetAfterBodyC9 ==
    /\ FirstCallAloneC9
    /\ \A i \in DOMAIN olog : olog[i].accepted = ~olog[i].flag
    /\ count <= AcceptedCalls

WitnessC9 ==
    /\ ostack = <<>>
    /\ count > 1
    /\ \E i \in DOMAIN olog : olog[i].depth > 0 /\ olog[i].accepted
    /\ \E i \in DOMAIN olog : ~olog[i].accepted

\* --------------------------------------------------------- accessor generator

\* A tuple field: `ident` is None.
NoIdent == 0
NotRun == [ran |-> FALSE, ok |-> FALSE, msg |-> <<>>, item |-> <<>>, methods |-> <<>>]
NoOp == [kind |-> "none", field |-> 0, arg |-> 0, ret |-> 0]

\* Attribute lists a field may carry (`get`, `set` and one attribute, `doc`, that
\* the generator does not know), with repetitions and in several orders.
AttrLists ==
    { <<>>, <<"get">>, <<"set">>, <<"doc">>, <<"get", "set">>, <<"doc", "get">>,
      <<"get", "get">>, <<"set", "doc", "get">> }

FieldTypes == {"u8", "bool"}

\* Values of a field's type: false and true as 0 and 1; the least, a middle
\* and the greatest u8.
TypeValues(ty) == IF ty = "bool" THEN {0, 1} ELSE {0, 1, 255}

DefaultValue(ty) == 0

\* A struct with named fields (field i is called i) or a tuple struct (no field
\* has an identifier), or an enum or a union.
StructDecls ==
    UNION { { [kind |-> "struct", name |-> "S", named |-> nm,
               fields |-> [i \in 1..k |->
                              [ident |-> IF nm THEN i ELSE NoIdent,
                               attrs |-> at[i], ty |-> ty[i]]]] :
                at \in [1..k -> AttrLists], ty \in [1..k -> FieldTypes], nm \in BOOLEAN }
            : k \in 0..MaxFields }

OtherDecls ==
    { [kind |-> kd, name |-> "S", named |-> TRUE, fields |-> <<>>] :
        kd \in {"enum", "union"} }

Decls == StructDecls \cup OtherDecls

HasAttr(field, a) == \E i \in DOMAIN field.attrs : field.attrs[i] = a

IsTag(a) == a = "get" \/ a = "set"

NotTag(a) == ~IsTag(a)

HasGet(field) == HasAttr(field, "get")

HasSet(field) == HasAttr(field, "set")

consume_attrs(field) == [field EXCEPT !.attrs = SelectSeq(@, NotTag)]

generate_struct(d) ==
    [named |-> d.named,
     fields |-> [i \in DOMAIN d.fields |-> consume_attrs(d.fields[i])]]

extract_get_fields(d) == SelectSeq(d.fields, HasGet)

extract_set_fields(d) == SelectSeq(d.fields, HasSet)

\* format_ident!("get_{}", field_ident); fn get_<f>(&self) -> <ty>
get_impl(field) ==
    [name |-> <<"get", field.ident>>, kind |-> "get", field |-> field.ident,
     args |-> <<>>, ret |-> field.ty]

\* format_ident!("set_{}", field_ident); fn set_<f>(&mut self, value: <ty>)
set_impl(field) ==
    [name |-> <<"set", field.ident>>, kind |-> "set", field |-> field.ident,
     args |-> <<field.ty>>, ret |-> "()"]

OnlyStructsMsg == <<"Only", "structs", "are", "supported">>

UnwrapNoneMsg == <<"called", "Option::unwrap()", "on", "a", "None", "value">>

Panic(msg) == [ran |-> TRUE, ok |-> FALSE, msg |-> msg, item |-> <<>>, methods |-> <<>>]

\* accessors(): the struct without its get/set attributes and the trait with one
\* getter per `get` field and one setter per `set` field; a panic for anything
\* that is not a struct, and in `field.ident.clone().unwrap()` for a tagged
\* field that has no identifier.
accessors(d) ==
    IF d.kind # "struct" THEN Panic(OnlyStructsMsg)
    ELSE LET gets == extract_get_fields(d)
             sets == extract_set_fields(d)
         IN  IF \/ \E i \in DOMAIN gets : gets[i].ident = NoIdent
                \/ \E i \in DOMAIN sets : sets[i].ident = NoIdent
             THEN Panic(UnwrapNoneMsg)
             ELSE [ran |-> TRUE, ok |-> TRUE, msg |-> <<>>,
                   item |-> generate_struct(d),
                   methods |-> [i \in DOMAIN gets |-> get_impl(gets[i])]
                               \o [i \in DOMAIN sets |-> set_impl(sets[i])]]

\* A setter that stores nothing.
SetBodyDropsValue(o, m, v) == o

\* A setter that writes every field of the fragment.
SetBodyWritesAll(o, m, v) == [o EXCEPT !.data = [i \in DOMAIN o.data |-> v]]

\* self.data().<field> = value;
SetBody(o, m, v) == [o EXCEPT !.data[m.field] = v]

\* self.data().<field>
GetBody(o, m) == o.data[m.field]

AccStart ==
    /\ decl \in Decls
    /\ gen = NotRun
    /\ obj = <<>>
    /\ prev = <<>>
    /\ lastOp = NoOp
    /\ lastSet = <<>>

\* The build runs the generator on the declaration; when it succeeds the
\* composed object exists, with every field at its Default.
Generate ==
    /\ ~gen.ran
    /\ gen' = accessors(decl)
    /\ IF gen'.ok
       THEN /\ obj' = [data |-> [i \in DOMAIN decl.fields |->
                                    DefaultValue(decl.fields[i].ty)],
                       other |-> 0]
            /\ prev' = obj'
            /\ lastSet' = [i \in DOMAIN decl.fields |-> {}]
       ELSE UNCHANGED <<obj, prev, lastSet>>
    /\ UNCHANGED <<decl, lastOp>>

Generated == gen.ran /\ gen.ok

\* A message calls a generated setter with any value of the field's type.
CallSet ==
    /\ Generated
    /\ \E k \in DOMAIN gen.methods :
          LET m == gen.methods[k]
          IN  /\ m.kind = "set"
              /\ \E v \in TypeValues(m.args[1]) :
                    /\ obj' = SetBody(obj, m, v)
                    /\ lastOp' = [kind |-> "set", field |-> m.field,
                                  arg |-> v, ret |-> 0]
                    /\ lastSet' = [lastSet EXCEPT ![m.field] = {v}]
    /\ prev' = obj
    /\ UNCHANGED <<decl, gen>>

\* A message calls a generated getter.
CallGet ==
    /\ Generated
    /\ \E k \in DOMAIN gen.methods :
          LET m == gen.methods[k]
          IN  /\ m.kind = "get"
              /\ lastOp' = [kind |-> "get", field |-> m.field,
                            arg |-> 0, ret |-> GetBody(obj, m)]
    /\ prev' = obj
    /\ UNCHANGED <<decl, gen, obj, lastSet>>

InitAcc ==
    /\ AccStart
    /\ ChainIdle
    /\ OnceIdle
    /\ BuildIdle
    /\ KeysIdle
    /\ CapIdle

NextAcc ==
    \/ Generate /\ UNCHANGED notAcc
    \/ CallSet /\ UNCHANGED notAcc
    \/ CallGet /\ UNCHANGED notAcc

SpecAcc == InitAcc /\ [][NextAcc]_vars

\* ---- claims about the accessor generator ----

\* C4: a getter of a field returns the argument of the most recent call of that
\* field's setter, whatever other setters were called in between.
RoundTripC4 ==
    (Generated /\ lastOp.kind = "get" /\ lastSet[lastOp.field] # {})
        => lastSet[lastOp.field] = {lastOp.ret}

WitnessC4 ==
    /\ Generated
    /\ lastOp.kind = "get"
    /\ lastOp.ret = 255
    /\ lastSet[lastOp.field] = {255}
    /\ \E g \in DOMAIN lastSet : g # lastOp.field /\ lastSet[g] = {1}

\* C5: a setter stores its argument, whatever the value, and leaves every other
\* field of the fragment and the rest of the composed object as they were; a
\* getter leaves the whole object as it was.
FrameC5 ==
    Generated =>
        /\ lastOp.kind = "set" =>
              /\ obj.data[lastOp.field] = lastOp.arg
              /\ \A g \in DOMAIN obj.data :
                    g # lastOp.field => obj.data[g] = prev.data[g]
              /\ obj.other = prev.other
        /\ lastOp.kind = "get" => obj = prev

WitnessC5 ==
    /\ Generated
    /\ lastOp.kind = "set"
    /\ lastOp.arg = 0
    /\ prev.data[lastOp.field] = 255
    /\ \E g \in DOMAIN obj.data : g # lastOp.field /\ obj.data[g] = 255

NamesConstruct(msg, d) == \E i \in DOMAIN msg : msg[i] = d.name \/ msg[i] = d.kind

\* C7: an enum or a union makes the generator fail without output, the failure
\* naming the unsupported construct; a struct never makes it fail.
OnlyStructsC7 ==
    gen.ran =>
        /\ decl.kind # "struct" =>
              /\ ~gen.ok
              /\ gen.methods = <<>>
              /\ gen.item = <<>>
              /\ NamesConstruct(gen.msg, decl)
        /\ decl.kind = "struct" => gen.ok

RECURSIVE WithoutTags(_)
WithoutTags(as) ==
    IF as = <<>> THEN <<>>
    ELSE IF Head(as) \in {"get", "set"} THEN WithoutTags(Tail(as))
    ELSE <<Head(as)>> \o WithoutTags(Tail(as))

TaggedCount(d, a) == Cardinality({i \in DOMAIN d.fields : HasAttr(d.fields[i], a)})

MethodsNamed(nm) == {k \in DOMAIN gen.methods : gen.methods[k].name = nm}

ExactAccessors ==
    /\ gen.ok
    /\ \A i \in DOMAIN decl.fields :
          LET f == decl.fields[i]
          IN  /\ Cardinality(MethodsNamed(<<"get", f.ident>>)) =
                    (IF HasAttr(f, "get") THEN 1 ELSE 0)
              /\ Cardinality(MethodsNamed(<<"set", f.ident>>)) =
                    (IF HasAttr(f, "set") THEN 1 ELSE 0)
              /\ \A k \in MethodsNamed(<<"get", f.ident>>) :
                    gen.methods[k].args = <<>> /\ gen.methods[k].ret = f.ty
              /\ \A k \in MethodsNamed(<<"set", f.ident>>) :
                    gen.methods[k].args = <<f.ty>>
    /\ Len(gen.methods) = TaggedCount(decl, "get") + TaggedCount(decl, "set")
    /\ Len(gen.item.fields) = Len(decl.fields)
    /\ \A i \in DOMAIN decl.fields :
          LET f == decl.fields[i]
              g == gen.item.fields[i]
          IN  /\ g.ident = f.ident
              /\ g.ty = f.ty
              /\ g.attrs = WithoutTags(f.attrs)

\* C10: for every struct, one get_<f> per `get` field returning the field's
\* type, one set_<f> per `set` field taking the field's type, nothing else, and
\* the struct re-emitted with its fields in order and only the tags removed.
ExactAccessorsC10 ==
    (gen.ran /\ decl.kind = "struct") => ExactAccessors

\* The same for structs whose fields are named: there the generator does as C10 says.
ExactAccessorsNamedStructs ==
    (gen.ran /\ decl.kind = "struct" /\ decl.named) => ExactAccessors

\* ------------------------------------------- one build: splitter and composer

\* Declared names of behavior modules and of storage fragments.
Names == 1..MaxNames

\* The passes of a build: the splitter on each declared module and the
\* composition of the object.
SplitPass(m) == <<"split", m>>
ComposePass == <<"compose", 0>>

Passes(b) == {SplitPass(m) : m \in b.declared} \cup {ComposePass}

\* The signature record of a module: its name and its external methods.
Signature(m) == [module |-> m, methods |-> {<<m, "message">>}]

\* The splitter adds the module's record to the build-scoped store.
WriteRecord(recs, m) ==
    [x \in DOMAIN recs \cup {m} |-> IF x = m THEN Signature(m) ELSE recs[x]]

\* A composer that does not look for the records.
RecordsLocatedUnchecked(b, recs) == {}

\* The included modules whose record cannot be located.
RecordsMissing(b, recs) == b.includes \ DOMAIN recs

BuildStart ==
    /\ build \in [declared : SUBSET Names, includes : (SUBSET Names) \ {{}}]
    /\ todo = Passes(build)
    /\ records = <<>>
    /\ firstRec = <<>>
    /\ outcome = "pending"
    /\ failure = <<>>

Building == outcome # "failed"

\* The splitter runs on the declaration of module m.
Split ==
    /\ Building
    /\ \E m \in Names :
          /\ SplitPass(m) \in todo
          /\ todo' = todo \ {SplitPass(m)}
          /\ records' = WriteRecord(records, m)
          /\ firstRec' = IF m \in DOMAIN firstRec THEN firstRec
                         ELSE [x \in DOMAIN firstRec \cup {m} |->
                                  IF x = m THEN records'[m] ELSE firstRec[x]]
    /\ UNCHANGED <<build, outcome, failure>>

\* The composed object is assembled: every included module's record is read.
Compose ==
    /\ Building
    /\ ComposePass \in todo
    /\ todo' = todo \ {ComposePass}
    /\ LET missing == RecordsMissing(build, records)
       IN  IF missing = {}
           THEN /\ outcome' = "expanded"
                /\ UNCHANGED failure
           ELSE /\ outcome' = "failed"
                /\ \E m \in missing :
                      failure' = [code |-> "unknown-module", name |-> m]
    /\ UNCHANGED <<build, records, firstRec>>

InitBuild ==
    /\ BuildStart
    /\ ChainIdle
    /\ OnceIdle
    /\ AccIdle
    /\ KeysIdle
    /\ CapIdle

NextBuild ==
    \/ Split /\ UNCHANGED notBuild
    \/ Compose /\ UNCHANGED notBuild

SpecBuild == InitBuild /\ [][NextBuild]_vars

\* ---- claims about the build ----

\* C8: the object is expanded only when the record of every module it includes
\* has been written; when a record is absent at composition the build fails with
\* an unknown-module error naming a module whose record is absent, and the
\* object is not expanded; a record, once written, stays as written.
RecordBeforeExpansionC8 ==
    /\ outcome = "expanded" => build.includes \subseteq DOMAIN records
    /\ outcome = "failed" =>
          /\ failure.code = "unknown-module"
          /\ failure.name \in build.includes
          /\ failure.name \notin DOMAIN records
    /\ (ComposePass \notin todo) => outcome \in {"expanded", "failed"}
    /\ (ComposePass \in todo) => outcome = "pending"
    /\ \A m \in DOMAIN firstRec :
          m \in DOMAIN records /\ records[m] = firstRec[m]

WitnessC8 ==
    /\ outcome = "failed"
    /\ failure.name \in build.declared
    /\ \E m \in build.includes : m \in DOMAIN records

\* ------------------------------------------------ storage-fragment registrar

\* The fixed-width keys.
Keys == 0..(2 ^ KeyBits - 1)

\* A key that depends on what was registered before.
StorageKeyByOrder(name, assigned) ==
    (hashfn[name] + Cardinality(DOMAIN assigned)) % (2 ^ KeyBits)

\* The registrar: the key is the hash of the fragment's declared name.
StorageKey(name, assigned) == hashfn[name]

KeysStart ==
    /\ hashfn \in [Names -> Keys]
    /\ frags \in SUBSET Names
    /\ ktodo = frags
    /\ keys = <<>>
    /\ firstKey = <<>>
    /\ nruns = 1

\* The registrar runs on fragment m. It looks at no other fragment.
Register ==
    /\ \E m \in ktodo :
          /\ ktodo' = ktodo \ {m}
          /\ LET k == StorageKey(m, keys)
             IN  /\ keys' = [x \in DOMAIN keys \cup {m} |->
                                IF x = m THEN k ELSE keys[x]]
                 /\ firstKey' = IF m \in DOMAIN firstKey THEN firstKey
                                ELSE [x \in DOMAIN firstKey \cup {m} |->
                                         IF x = m THEN k ELSE firstKey[x]]
    /\ UNCHANGED <<hashfn, frags, nruns>>

\* The generator is run again on the same, unchanged fragments.
Rerun ==
    /\ nruns < MaxRuns
    /\ ktodo = {}
    /\ nruns' = nruns + 1
    /\ ktodo' = frags
    /\ keys' = <<>>
    /\ UNCHANGED <<hashfn, frags, firstKey>>

InitKeys ==
    /\ KeysStart
    /\ ChainIdle
    /\ OnceIdle
    /\ AccIdle
    /\ BuildIdle
    /\ CapIdle

NextKeys ==
    \/ Register /\ UNCHANGED notKeys
    \/ Rerun /\ UNCHANGED notKeys

SpecKeys == InitKeys /\ [][NextKeys]_vars

\* ---- claims about the storage keys ----

NoCall == [op |-> "none", arg |-> 0, ok |-> TRUE, err |-> "", val |-> 0]

Ok(cap) == [op |-> "_init_cap", arg |-> cap, ok |-> TRUE, err |-> "", val |-> 0]

ErrCustom(cap, text) ==
    [op |-> "_init_cap", arg |-> cap, ok |-> FALSE, err |-> text, val |-> 0]

\* An _init_cap without its check.
CapRejectedNever(cap) == FALSE

\* `if cap == 0 { return Err(..) }`
CapRejected(cap) == cap = 0

\* Lazy::set: the cell holds the value.
LazySet(cell, v) == {v}

\* Lazy::get_or_default: the value written, or Balance::default() when the cell
\* was never written.
LazyGetOrDefault(cell) == IF cell = {} THEN 0 ELSE CHOOSE v \in cell : TRUE

CapStart ==
    /\ capCell = {}
    /\ capPrev = {}
    /\ capArgs = <<>>
    /\ capRes = NoCall

\* InternalImpl::_init_cap(cap)
InitCap ==
    /\ Len(capArgs) < MaxCapCalls
    /\ \E cap \in 0..MaxCap :
          /\ capArgs' = Append(capArgs, cap)
          /\ IF CapRejected(cap)
             THEN /\ capRes' = ErrCustom(cap, "Cap must be above 0")
                  /\ UNCHANGED capCell
             ELSE /\ capCell' = LazySet(capCell, cap)
                  /\ capRes' = Ok(cap)
    /\ capPrev' = capCell

\* InternalImpl::_cap()
Cap ==
    /\ capRes' = [op |-> "_cap", arg |-> 0, ok |-> TRUE, err |-> "",
                  val |-> LazyGetOrDefault(capCell)]
    /\ capPrev' = capCell
    /\ UNCHANGED <<capCell, capArgs>>

InitCapped ==
    /\ CapStart
    /\ ChainIdle
    /\ OnceIdle
    /\ AccIdle
    /\ BuildIdle
    /\ KeysIdle

NextCapped ==
    \/ InitCap /\ UNCHANGED notCap
    \/ Cap /\ UNCHANGED notCap

SpecCapped == InitCapped /\ [][NextCapped]_vars

\* ---- claims about the lazy cap ----

RECURSIVE LastNonZero(_)
LastNonZero(args) ==
    IF args = <<>> THEN 0
    ELSE IF args[Len(args)] # 0 THEN args[Len(args)]
    ELSE LastNonZero(SubSeq(args, 1, Len(args) - 1))

\* C11: _cap() returns the argument of the most recent _init_cap call whose
\* argument was not 0, and 0 when there was none; _init_cap(0) returns
\* Err(Custom("Cap must be above 0")) and leaves the stored cap as it was;
\* _init_cap with a cap above 0 returns Ok(()).
LazyCapC11 ==
    /\ capRes.op = "_cap" => capRes.val = LastNonZero(capArgs)
    /\ (capRes.op = "_init_cap" /\ capRes.arg = 0) =>
          /\ ~capRes.ok
          /\ capRes.err = "Cap must be above 0"
          /\ capCell = capPrev
    /\ (capRes.op = "_init_cap" /\ capRes.arg > 0) => capRes.ok
    /\ LazyGetOrDefault(capCell) = LastNonZero(capArgs)

WitnessC11 ==
    /\ capRes.op = "_cap"
    /\ Len(capArgs) = 3
    /\ capArgs[1] > 0
    /\ capArgs[2] > 0
    /\ capArgs[2] # capArgs[1]
    /\ capArgs[3] = 0
    /\ capRes.val = capArgs[2]

WitnessUnsetC11 ==
    /\ capRes.op = "_cap"
    /\ capCell = {}
    /\ capArgs = <<0>>
    /\ capRes.val = 0

====
